---- MODULE Spec2Model ----
(***************************************************************************)
(* Model of powersimdata.data_access.data_access: the tiered data access   *)
(* layer (DataAccess, SSHDataAccess) over a MultiFS of the server          *)
(* (ssh_fs), the profile container (profile_fs) and the scenario           *)
(* container (scenario_fs), with one local filesystem per client.          *)
(*                                                                         *)
(* A filesystem is a function from the paths it holds to their content;    *)
(* a path is present iff it is in the function's domain.  Content is a     *)
(* number: 0 is the zero-length file that openbin(path, "w") creates,      *)
(* 1..NumContents are distinct byte strings.                               *)
(*                                                                         *)
(* Spec       : clients push concurrently (SSHDataAccess.push, one action  *)
(*              per statement / per command of the remote shell script).   *)
(* FairSpec   : Spec from fewer initial stores, with the remote command    *)
(*              running to its end.                                        *)
(* FacadeSpec : clients call write, get and checksum one call at a time.   *)
(*                                                                         *)
(* Directories (makedirs) are not part of the state: a path names a file.  *)
(***************************************************************************)
EXTENDS Integers, Sequences, FiniteSets, TLC

\* ------------------------------------------------------------------ bounds
\* number of distinct non-empty file contents
NumContents == 2
\* number of push calls the clients make in all
MaxCalls == 2
\* number of calls other than push the clients make in all
MaxFacadeCalls == 2

Procs == {"p1", "p2"}
Contents == 1..NumContents

\* paths on the server that push is given as `rename`
Names == {"a.csv", "b.csv"}
\* paths in local_fs that push is given as `file_name`
LocalNames == {"a.csv"}
\* paths given to write, get and checksum: "c.txt" has no known extension
FacadeNames == {"a.csv", "c.txt"}

\* ----------------------------------------------------------- configuration
\* self.root: the root folder on the server
root == "root"

\* posixpath.join(self.root, rename)
FullPath(path) == root \o "/" \o path

\* backup = f"{rename}.temp": where push stages the local edit
BackupPath(rename) == rename \o ".temp"

\* the simple backup `mv -b` leaves of the file it replaces
MvBackupPath(rename) == rename \o "~"

\* the lock file of the remote command; it does not depend on rename
LockFilePerPath(rename) == FullPath(rename \o ".lockfile")
LockFile(rename) == FullPath("scenario.lockfile")

\* ------------------------------------------------------------ filesystems
\* the members get_multi_fs adds to the MultiFS
Members == {"ssh_fs", "profile_fs", "scenario_fs"}

\* add_fs(name, fs, priority=...) of get_multi_fs
PriorityAsAdded(m) ==
    CASE m = "ssh_fs" -> 1
      [] m = "profile_fs" -> 2
      [] m = "scenario_fs" -> 3
Priority(m) ==
    CASE m = "ssh_fs" -> 3
      [] m = "profile_fs" -> 2
      [] m = "scenario_fs" -> 1

\* the member added with write=True
WriteFs == "ssh_fs"

EmptyFs == [q \in {} |-> 0]

Exists(f, path) == path \in DOMAIN f

Put(f, path, c) == [q \in DOMAIN f \cup {path} |-> IF q = path THEN c ELSE f[q]]

Remove(f, path) == [q \in DOMAIN f \ {path} |-> f[q]]

Holders(st, path) == {m \in Members : Exists(st[m], path)}

\* MultiFS.which: the member of highest priority that holds the path
WhichWriteFsOnly(st, path) == IF Exists(st[WriteFs], path) THEN WriteFs ELSE "None"
Which(st, path) ==
    IF Holders(st, path) = {} THEN "None"
    ELSE CHOOSE m \in Holders(st, path) :
            \A n \in Holders(st, path) : Priority(m) >= Priority(n)

\* DataAccess._check_file_exists: the error it raises, or "ok"
CheckFileExistsNever(st, path, should_exist) == "ok"
CheckFileExists(st, path, should_exist) ==
    LET exists == Which(st, path) # "None" IN
    IF should_exist /\ ~exists THEN "OSError: not found"
    ELSE IF ~should_exist /\ exists THEN "OSError: already exists"
    ELSE "ok"

\* ---------------------------------------------------------------- digests
\* Digests are injective in the content (no collisions).
NoDigest == [alg |-> "", of |-> 0, path |-> ""]

\* stdout of `sha1sum <path>`: "<sha1 of the bytes>  <path>"
Sha1sumLine(path, c) == [alg |-> "sha1", of |-> c, path |-> path]

\* fs.hash(path, "sha256")
Sha256(c) == [alg |-> "sha256", of |-> c, path |-> ""]

\* $(sha1sum {original}) in the remote command: empty when the file is missing
ShellSha1sum(ssh, rename) ==
    IF Exists(ssh, rename) THEN Sha1sumLine(FullPath(rename), ssh[rename])
    ELSE NoDigest

\* DataAccess.checksum
Checksum(c) == Sha256(c)

\* WrapSSHFS.checksum: the digest checksum() returns for a file of the server
SshFsChecksum(path, c) == Checksum(c)

\* [[ $prev == $curr ]]
ChecksumsEqualAlways(prev, cur) == TRUE
ChecksumsEqual(prev, cur) == prev = cur

\* the values a caller passes as `checksum` to push(file_name, checksum, rename)
CallerChecksums(rename) ==
    {Sha1sumLine(FullPath(rename), c) : c \in Contents}
      \cup {SshFsChecksum(FullPath(rename), c) : c \in Contents}
      \cup {NoDigest}

\* ------------------------------------------------------------------ state
VARIABLES
    store,      \* store[m]: the files of member m of the MultiFS (self.fs)
    local,      \* local[p]: the files of client p's local_fs
    locks,      \* <<lock file, p>>: p's remote command holds flock on the file
    pc,         \* pc[p]: the statement client p is at
    op,         \* op[p]: the call p is in, or made last
    args,       \* args[p]: the arguments of that call
    curr,       \* curr[p]: $curr of p's remote command
    stderr,     \* stderr[p]: the lines p's remote command wrote to stderr
    result,     \* result[p]: "returned", or the error the call raised
    calls,      \* calls[p]: the number of calls p has made
    value,      \* value[p]: what the call returned or yielded to its caller
    version,    \* history: version[r] counts the files installed at server path r
    hist,       \* history of p's push: the content it staged (sent), the content
                \* sha1sum read (seen), the content its mv installed (installed)
                \* and the version of the file its mv replaced (replaced)
    tmp,        \* tmp[p]: the files of the TempFS of p's copy_from
    connected,  \* connected[p]: get_ssh_fs succeeded when p built its MultiFS
    inmem,      \* inmem[p]: the files of the "in_memory" member of a
                \* MemoryDataAccess
    handles,    \* handles[p]: the number of files of local_fs that p holds open
    state,      \* the State object of a Scenario (scenario.state)
    tgrid,      \* a TransformGrid, the arguments of its constructor and the
                \* grids get_grid has returned
    tprofile    \* a TransformProfile and the profile get_power_output returned

vars == <<store, local, locks, pc, op, args, curr, stderr, result, value, calls,
          version, hist, tmp, connected, inmem, handles, state, tgrid, tprofile>>

\* the variables of the data access layer
dataAccessVars == <<store, local, locks, pc, op, args, curr, stderr, result, value,
                    calls, version, hist, tmp, connected, inmem, handles>>

NoArgs == [file_name |-> "", checksum |-> NoDigest, rename |-> "", data |-> 0,
           save_local |-> FALSE, pattern |-> "", confirm |-> FALSE, answer |-> "",
           blob_version |-> <<>>, local_version |-> <<>>]
NoHist == [sent |-> <<>>, seen |-> <<>>, installed |-> <<>>, replaced |-> <<>>]

\* the content of a path of a filesystem, as a sequence: <<>> when it is absent
FileAt(f, path) == IF Exists(f, path) THEN <<f[path]>> ELSE <<>>

RECURSIVE SumOver(_, _)
SumOver(f, S) ==
    IF S = {} THEN 0
    ELSE LET x == CHOOSE y \in S : TRUE IN f[x] + SumOver(f, S \ {x})

ssh == store["ssh_fs"]

\* no file is open, and there is no Scenario, TransformGrid or
\* TransformProfile object
NoObject == [name |-> "none"]
InitNoScenario ==
    /\ handles = [p \in Procs |-> 0]
    /\ state = NoObject
    /\ tgrid = NoObject
    /\ tprofile = NoObject

\* get_multi_fs: the members the MultiFS is given; ssh_fs is added only when
\* get_ssh_fs did not raise
GetMultiFsAll(ssh_ok) == Members
GetMultiFs(ssh_ok) == IF ssh_ok THEN Members ELSE Members \ {"ssh_fs"}

\* self.fs of client p: the files of each member of its MultiFS; a backend
\* that is not a member shows no file
MultiFs(p) ==
    [m \in Members |-> IF m \in GetMultiFs(connected[p]) THEN store[m] ELSE EmptyFs]

\* MultiFS.write_fs of client p: "None" when no member was added with write=True
WriteFsOfAny(p) == WriteFs
WriteFsOf(p) == IF WriteFs \in GetMultiFs(connected[p]) THEN WriteFs ELSE "None"

\* the files of the server and of the containers when the clients start:
\* a.csv is on the server, b.csv may be; a staged file may be left over from
\* an earlier push, on the server or in a container
InitStale ==
    {[ssh_fs |-> EmptyFs, profile_fs |-> EmptyFs],
     [ssh_fs |-> [q \in {BackupPath("a.csv")} |-> 1], profile_fs |-> EmptyFs],
     [ssh_fs |-> EmptyFs, profile_fs |-> [q \in {BackupPath("b.csv")} |-> 1]]}

InitStores ==
    {[ssh_fs |-> can @@ stale.ssh_fs, profile_fs |-> stale.profile_fs,
      scenario_fs |-> EmptyFs] :
        can \in {[q \in {"a.csv"} |-> 1], [q \in Names |-> 1]},
        stale \in InitStale}

\* the local copy a client starts with: a.csv, edited or not
InitLocals == {[q \in LocalNames |-> c] : c \in Contents}

Init ==
    /\ store \in InitStores
    /\ local \in [Procs -> InitLocals]
    /\ locks = {}
    /\ pc = [p \in Procs |-> "idle"]
    /\ op = [p \in Procs |-> "none"]
    /\ args = [p \in Procs |-> NoArgs]
    /\ curr = [p \in Procs |-> NoDigest]
    /\ stderr = [p \in Procs |-> {}]
    /\ result = [p \in Procs |-> "none"]
    /\ calls = [p \in Procs |-> 0]
    /\ version = [r \in Names |-> 0]
    /\ value = [p \in Procs |-> <<>>]
    /\ hist = [p \in Procs |-> NoHist]
    /\ tmp = [p \in Procs |-> EmptyFs]
    /\ connected = [p \in Procs |-> TRUE]
    /\ inmem = [p \in Procs |-> EmptyFs]
    /\ InitNoScenario

\* ------------------------------------------------------ SSHDataAccess.push
\* push(file_name, checksum, rename) is called and checks that the backup
\* path is free
PushCall(p, file_name, checksum, rename) ==
    /\ pc[p] = "idle"
    /\ SumOver(calls, Procs) < MaxCalls
    /\ calls' = [calls EXCEPT ![p] = @ + 1]
    /\ op' = [op EXCEPT ![p] = "push"]
    /\ args' = [args EXCEPT ![p] =
                  [NoArgs EXCEPT !.file_name = file_name, !.checksum = checksum,
                                 !.rename = rename]]
    /\ curr' = [curr EXCEPT ![p] = NoDigest]
    /\ stderr' = [stderr EXCEPT ![p] = {}]
    /\ hist' = [hist EXCEPT ![p] = NoHist]
    /\ LET chk == CheckFileExists(MultiFs(p), BackupPath(rename), FALSE) IN
         IF chk # "ok"
         THEN /\ result' = [result EXCEPT ![p] = chk]
              /\ pc' = [pc EXCEPT ![p] = "idle"]
         ELSE /\ result' = [result EXCEPT ![p] = "none"]
              /\ pc' = [pc EXCEPT ![p] = "move"]
    /\ UNCHANGED <<tmp, connected, handles, state, tgrid, tprofile, inmem, store, local, locks, value, version>>

\* fs.move.move_file(self.local_fs, file_name, self.fs, backup): the file is
\* written to the writable member, over whatever is there, and leaves
\* local_fs; without a writable member the copy raises and the file stays
PushMove(p) ==
    /\ pc[p] = "move"
    /\ LET f == args[p].file_name
           backup == BackupPath(args[p].rename) IN
         IF ~Exists(local[p], f)
         THEN /\ result' = [result EXCEPT ![p] = "ResourceNotFound"]
              /\ pc' = [pc EXCEPT ![p] = "idle"]
              /\ UNCHANGED <<store, local, hist>>
         ELSE IF WriteFsOf(p) = "None"
         THEN /\ result' = [result EXCEPT ![p] = "ResourceReadOnly"]
              /\ pc' = [pc EXCEPT ![p] = "idle"]
              /\ UNCHANGED <<store, local, hist>>
         ELSE /\ store' = [store EXCEPT ![WriteFs] = Put(@, backup, local[p][f])]
              /\ local' = [local EXCEPT ![p] = Remove(@, f)]
              /\ hist' = [hist EXCEPT ![p].sent = <<local[p][f]>>]
              /\ pc' = [pc EXCEPT ![p] = "flock"]
              /\ UNCHANGED result
    /\ UNCHANGED <<tmp, connected, handles, state, tgrid, tprofile, inmem, locks, op, args, curr, stderr, value, calls, version>>

\* flock -x 200 ... 200>{lockfile}: waits until no command holds the lock file
Flock(p) ==
    /\ pc[p] = "flock"
    /\ \A q \in Procs : <<LockFile(args[p].rename), q>> \notin locks
    /\ locks' = locks \cup {<<LockFile(args[p].rename), p>>}
    /\ pc' = [pc EXCEPT ![p] = "sha1sum"]
    /\ UNCHANGED <<tmp, connected, handles, state, tgrid, tprofile, inmem, store, local, op, args, curr, stderr, result, value, calls, version, hist>>

\* curr=$(sha1sum {original})
Sha1sum(p) ==
    /\ pc[p] = "sha1sum"
    /\ curr' = [curr EXCEPT ![p] = ShellSha1sum(ssh, args[p].rename)]
    /\ stderr' = [stderr EXCEPT ![p] =
                    IF Exists(ssh, args[p].rename) THEN @
                    ELSE @ \cup {"sha1sum: No such file or directory"}]
    /\ hist' = [hist EXCEPT ![p].seen = FileAt(ssh, args[p].rename)]
    /\ pc' = [pc EXCEPT ![p] = "compare"]
    /\ UNCHANGED <<tmp, connected, handles, state, tgrid, tprofile, inmem, store, local, locks, op, args, result, value, calls, version>>

\* if [[ $prev == $curr ]]; then mv {updated} {original} -b;
\* else echo CONFLICT_ERROR 1>&2; fi
CompareMv(p) ==
    /\ pc[p] = "compare"
    /\ LET original == args[p].rename
           updated == BackupPath(args[p].rename) IN
         IF ChecksumsEqual(args[p].checksum, curr[p])
         THEN IF Exists(ssh, updated)
              THEN /\ store' = [store EXCEPT ![WriteFs] =
                        Remove(Put(IF Exists(@, original)
                                   THEN Put(@, MvBackupPath(original), @[original])
                                   ELSE @,
                                   original, @[updated]),
                               updated)]
                   /\ version' = [version EXCEPT ![original] = @ + 1]
                   /\ hist' = [hist EXCEPT ![p].installed = <<ssh[updated]>>,
                                           ![p].replaced = <<version[original]>>]
                   /\ UNCHANGED stderr
              ELSE /\ stderr' = [stderr EXCEPT ![p] =
                        @ \cup {"mv: cannot stat: No such file or directory"}]
                   /\ UNCHANGED <<store, version, hist>>
         ELSE /\ stderr' = [stderr EXCEPT ![p] = @ \cup {"CONFLICT_ERROR"}]
              /\ UNCHANGED <<store, version, hist>>
    /\ pc' = [pc EXCEPT ![p] = "unlock"]
    /\ UNCHANGED <<tmp, connected, handles, state, tgrid, tprofile, inmem, local, locks, op, args, curr, result, value, calls>>

\* the subshell ends and closes descriptor 200: the lock is released
UnlockKeepsLock(p) ==
    /\ pc[p] = "unlock"
    /\ pc' = [pc EXCEPT ![p] = "errors"]
    /\ UNCHANGED <<tmp, connected, handles, state, tgrid, tprofile, inmem, store, local, locks, op, args, curr, stderr, result, value, calls,
                   version, hist>>
Unlock(p) ==
    /\ pc[p] = "unlock"
    /\ locks' = locks \ {<<LockFile(args[p].rename), p>>}
    /\ pc' = [pc EXCEPT ![p] = "errors"]
    /\ UNCHANGED <<tmp, connected, handles, state, tgrid, tprofile, inmem, store, local, op, args, curr, stderr, result, value, calls, version, hist>>

\* errors = stderr.readlines(); raise IOError if there is any
PushReturn(p) ==
    /\ pc[p] = "errors"
    /\ result' = [result EXCEPT ![p] = IF stderr[p] = {} THEN "returned" ELSE "IOError"]
    /\ pc' = [pc EXCEPT ![p] = "idle"]
    /\ UNCHANGED <<tmp, connected, handles, state, tgrid, tprofile, inmem, store, local, locks, op, args, curr, stderr, value, calls, version, hist>>

Next ==
    \E p \in Procs :
        \/ \E f \in LocalNames, r \in Names :
             \E h \in CallerChecksums(r) : PushCall(p, f, h, r)
        \/ PushMove(p)
        \/ Flock(p)
        \/ Sha1sum(p)
        \/ CompareMv(p)
        \/ Unlock(p)
        \/ PushReturn(p)

Spec == Init /\ [][Next]_vars

\* The server runs a remote command to its end: once it is past flock, each
\* of its steps is taken.  FairSpec starts from the stores in which b.csv is
\* not on the server and the two clients hold different edits.
FairInit ==
    /\ Init
    /\ ~Exists(ssh, "b.csv")
    /\ local = [p \in Procs |-> [q \in LocalNames |-> IF p = "p1" THEN 1 ELSE NumContents]]

FairSpec ==
    /\ FairInit /\ [][Next]_vars
    /\ \A p \in Procs : WF_vars(Sha1sum(p) \/ CompareMv(p) \/ Unlock(p))

\* ------------------------------------------- DataAccess.write, get, checksum
\* basename(filepath).split(".")[-1]
Ext(filepath) ==
    CASE filepath = "a.csv" -> "csv"
      [] filepath = "b.csv" -> "csv"
      [] filepath = "c.txt" -> "txt"

\* DataAccess._callback: the bytes the serializer writes, or the error
Callback(filepath, data) ==
    IF Ext(filepath) \in {"pkl", "csv", "mat"} THEN [error |-> "ok", bytes |-> data]
    ELSE [error |-> "ValueError", bytes |-> 0]

\* DataAccess._write on one filesystem: openbin(filepath, "w") creates the
\* file empty, then the callback fills it or raises
WriteTo(f, filepath, data) == Put(f, filepath, Callback(filepath, data).bytes)

\* the files InitFacade starts from
InitFacadeStores ==
    {[ssh_fs |-> s, profile_fs |-> b, scenario_fs |-> c] :
        s \in {EmptyFs, [q \in {"a.csv"} |-> 1]},
        b \in {EmptyFs, [q \in {"a.csv"} |-> NumContents], [q \in {"c.txt"} |-> NumContents]},
        c \in {EmptyFs, [q \in {"a.csv"} |-> 1]}}

InitFacade ==
    /\ store \in InitFacadeStores
    /\ local \in {[p \in Procs |-> IF p = "p1" THEN l ELSE EmptyFs] :
                    l \in {EmptyFs, [q \in {"a.csv"} |-> 1], [q \in {"c.txt"} |-> 1]}}
    /\ locks = {}
    /\ pc = [p \in Procs |-> "idle"]
    /\ op = [p \in Procs |-> "none"]
    /\ args = [p \in Procs |-> NoArgs]
    /\ curr = [p \in Procs |-> NoDigest]
    /\ stderr = [p \in Procs |-> {}]
    /\ result = [p \in Procs |-> "none"]
    /\ value = [p \in Procs |-> <<>>]
    /\ calls = [p \in Procs |-> 0]
    /\ version = [r \in Names |-> 0]
    /\ hist = [p \in Procs |-> NoHist]
    /\ tmp = [p \in Procs |-> EmptyFs]
    /\ connected \in {[p \in Procs |-> p = "p1" \/ ok] : ok \in BOOLEAN}
    /\ inmem = [p \in Procs |-> EmptyFs]
    /\ InitNoScenario

\* the bookkeeping of a facade call of client p
FacadeCall(p, name, a) ==
    /\ pc[p] = "idle"
    /\ SumOver(calls, Procs) < MaxFacadeCalls
    /\ calls' = [calls EXCEPT ![p] = @ + 1]
    /\ op' = [op EXCEPT ![p] = name]
    /\ args' = [args EXCEPT ![p] = a]
    /\ UNCHANGED <<tmp, connected, handles, state, tgrid, tprofile, inmem, locks, pc, curr, stderr, version, hist>>

\* DataAccess.write(filepath, data, save_local)
WriteLocalFirst(p, filepath, data, save_local) ==
    /\ FacadeCall(p, "write", [NoArgs EXCEPT !.file_name = filepath, !.data = data,
                                              !.save_local = save_local])
    /\ value' = [value EXCEPT ![p] = <<>>]
    /\ LET chk == CheckFileExists(MultiFs(p), filepath, FALSE)
           cb == Callback(filepath, data) IN
         IF chk # "ok"
         THEN /\ result' = [result EXCEPT ![p] = chk]
              /\ UNCHANGED <<store, local>>
         ELSE /\ local' = IF save_local
                          THEN [local EXCEPT ![p] = WriteTo(@, filepath, data)]
                          ELSE local
              /\ store' = IF cb.error = "ok" /\ WriteFsOf(p) # "None"
                          THEN [store EXCEPT ![WriteFs] = WriteTo(@, filepath, data)]
                          ELSE store
              /\ result' = [result EXCEPT ![p] =
                              IF cb.error # "ok" THEN cb.error
                              ELSE IF WriteFsOf(p) = "None" THEN "ResourceReadOnly"
                              ELSE "returned"]
Write(p, filepath, data, save_local) ==
    /\ FacadeCall(p, "write", [NoArgs EXCEPT !.file_name = filepath, !.data = data,
                                              !.save_local = save_local])
    /\ value' = [value EXCEPT ![p] = <<>>]
    /\ LET chk == CheckFileExists(MultiFs(p), filepath, FALSE)
           cb == Callback(filepath, data) IN
         IF chk # "ok"
         THEN /\ result' = [result EXCEPT ![p] = chk]
              /\ UNCHANGED <<store, local>>
         ELSE IF WriteFsOf(p) = "None"
         THEN /\ result' = [result EXCEPT ![p] = "ResourceReadOnly"]
              /\ UNCHANGED <<store, local>>
         ELSE /\ store' = [store EXCEPT ![WriteFs] = WriteTo(@, filepath, data)]
              /\ local' = IF cb.error = "ok" /\ save_local
                          THEN [local EXCEPT ![p] = WriteTo(@, filepath, data)]
                          ELSE local
              /\ result' = [result EXCEPT ![p] =
                              IF cb.error = "ok" THEN "returned" ELSE cb.error]

\* DataAccess.copy_from(file_name, from_dir) for from_path = filepath: the
\* new local_fs, or the error.  The file is read from the member which()
\* names, through the TempFS, into local_fs.
CopyFromUnchecked(st, loc, filepath) ==
    LET location == Which(st, filepath) IN
    IF location = "None" THEN [error |-> "ResourceNotFound", local |-> Put(loc, filepath, 0)]
    ELSE [error |-> "ok", local |-> Put(loc, filepath, st[location][filepath])]
CopyFrom(st, loc, filepath) ==
    LET chk == CheckFileExists(st, filepath, TRUE)
        location == Which(st, filepath) IN
    IF chk # "ok" THEN [error |-> chk, local |-> loc]
    ELSE IF location = "None" THEN [error |-> "ResourceNotFound", local |-> loc]
    ELSE [error |-> "ok", local |-> Put(loc, filepath, st[location][filepath])]

\* DataAccess.get(filepath): copy_from if local_fs does not hold the path,
\* then open the local file and yield it
GetAlwaysCopies(p, filepath) ==
    /\ FacadeCall(p, "get", [NoArgs EXCEPT !.file_name = filepath])
    /\ LET cp == CopyFrom(MultiFs(p), local[p], filepath) IN
         /\ local' = [local EXCEPT ![p] = cp.local]
         /\ result' = [result EXCEPT ![p] = IF cp.error = "ok" THEN "returned" ELSE cp.error]
         /\ value' = [value EXCEPT ![p] = IF cp.error = "ok" THEN <<cp.local[filepath]>> ELSE <<>>]
    /\ UNCHANGED store
Get(p, filepath) ==
    /\ FacadeCall(p, "get", [NoArgs EXCEPT !.file_name = filepath])
    /\ LET cp == IF Exists(local[p], filepath)
                 THEN [error |-> "ok", local |-> local[p]]
                 ELSE CopyFrom(MultiFs(p), local[p], filepath) IN
         /\ local' = [local EXCEPT ![p] = cp.local]
         /\ result' = [result EXCEPT ![p] = IF cp.error = "ok" THEN "returned" ELSE cp.error]
         /\ value' = [value EXCEPT ![p] = IF cp.error = "ok" THEN <<cp.local[filepath]>> ELSE <<>>]
    /\ UNCHANGED store

\* SSHDataAccess.checksum(relative_path)
SshChecksum(p, relative_path) ==
    /\ FacadeCall(p, "checksum", [NoArgs EXCEPT !.file_name = relative_path])
    /\ LET chk == CheckFileExists(MultiFs(p), relative_path, TRUE) IN
         IF chk # "ok"
         THEN /\ result' = [result EXCEPT ![p] = chk]
              /\ value' = [value EXCEPT ![p] = <<>>]
         ELSE IF ~connected[p]
         THEN /\ result' = [result EXCEPT ![p] = "KeyError"]
              /\ value' = [value EXCEPT ![p] = <<>>]
         ELSE IF ~Exists(ssh, relative_path)
         THEN /\ result' = [result EXCEPT ![p] = "ResourceNotFound"]
              /\ value' = [value EXCEPT ![p] = <<>>]
         ELSE /\ result' = [result EXCEPT ![p] = "returned"]
              /\ value' = [value EXCEPT ![p] =
                             <<SshFsChecksum(FullPath(relative_path), ssh[relative_path])>>]
    /\ UNCHANGED <<store, local>>

FacadeNext ==
    \E p \in Procs, filepath \in FacadeNames :
        \/ \E data \in Contents, save_local \in BOOLEAN :
             Write(p, filepath, data, save_local)
        \/ Get(p, filepath)
        \/ SshChecksum(p, filepath)

FacadeSpec == InitFacade /\ [][FacadeNext]_vars

\* ------------------------------------------------------ DataAccess.remove
\* RemoveSpec: clients call remove and write, one call at a time.

\* the globs given to remove
Patterns == {"*.csv", "*"}

\* what the user types at the prompt of input()
Answers == {"y", "Y", "no", ""}

\* str.lower() on the answers
Lower(s) == IF s = "Y" THEN "y" ELSE s

\* the glob matches the path
Matches(pattern, path) ==
    CASE pattern = "*" -> TRUE
      [] pattern = "*.csv" -> Ext(path) = "csv"

\* confirmed.lower() != "y": the operation is cancelled
CancelledNever(confirm, answer) == FALSE
Cancelled(confirm, answer) == confirm /\ Lower(answer) # "y"

RemoveAll(f, S) == [q \in DOMAIN f \ S |-> f[q]]

\* self.fs.glob(pattern).remove(): the outcomes.  The glob walks the files
\* of all members and removes each match through the MultiFS, that is from
\* the writable member; a match only another member holds makes remove
\* raise, after the matches walked before it were removed.
GlobRemove(st, wfs, pattern) ==
    LET matched == {path \in UNION {DOMAIN st[m] : m \in Members} :
                      Matches(pattern, path)} IN
    IF matched = {} THEN {[error |-> "ok", removed |-> {}]}
    ELSE IF wfs = "None" THEN {[error |-> "ResourceReadOnly", removed |-> {}]}
    ELSE IF matched \subseteq DOMAIN st[wfs] THEN {[error |-> "ok", removed |-> matched]}
    ELSE {[error |-> "ResourceNotFound", removed |-> D] :
            D \in SUBSET (matched \cap DOMAIN st[wfs])}

\* DataAccess.remove(pattern, confirm), the user answering `answer` when asked
RemoveCall(p, pattern, confirm, answer) ==
    /\ FacadeCall(p, "remove", [NoArgs EXCEPT !.pattern = pattern, !.confirm = confirm,
                                               !.answer = answer])
    /\ value' = [value EXCEPT ![p] = <<>>]
    /\ IF Cancelled(confirm, answer)
       THEN /\ result' = [result EXCEPT ![p] = "returned"]
            /\ UNCHANGED <<store, local>>
       ELSE \E out \in GlobRemove(MultiFs(p), WriteFsOf(p), pattern) :
              /\ store' = [store EXCEPT ![WriteFs] = RemoveAll(@, out.removed)]
              /\ result' = [result EXCEPT ![p] =
                              IF out.error = "ok" THEN "returned" ELSE out.error]
              /\ UNCHANGED local

RemoveNext ==
    \E p \in Procs :
        \/ \E pattern \in Patterns :
             \/ RemoveCall(p, pattern, FALSE, "")
             \/ \E answer \in Answers : RemoveCall(p, pattern, TRUE, answer)
        \/ \E filepath \in FacadeNames, data \in Contents, save_local \in BOOLEAN :
             Write(p, filepath, data, save_local)

RemoveSpec == InitFacade /\ [][RemoveNext]_vars

\* ------------------------------------------ DataAccess.copy_from, by steps
\* CopySpec: clients call copy_from and get; copy_from is one action per
\* statement, and a copy between two filesystems is two steps: the
\* destination is opened for writing (created empty), then it is filled.
\* Content 0 at a path is the file that is not filled yet.

\* the statements of copy_from a client can be at
CopyFromPcs == {"copy_file", "copying", "move_file", "moving"}

\* the bookkeeping of a copy_from or get call of client p
CopyCall(p, name, filepath) ==
    /\ pc[p] = "idle"
    /\ SumOver(calls, Procs) < MaxFacadeCalls
    /\ calls' = [calls EXCEPT ![p] = @ + 1]
    /\ op' = [op EXCEPT ![p] = name]
    /\ args' = [args EXCEPT ![p] = [NoArgs EXCEPT !.file_name = filepath]]
    /\ value' = [value EXCEPT ![p] = <<>>]
    /\ UNCHANGED <<store, local, locks, curr, stderr, version, hist, connected, handles, state, tgrid, tprofile, inmem>>

\* copy_from up to `with TempFS() as tmp_fs`: the existence check, then the
\* empty TempFS
CopyFromEnterCached(p, filepath) ==
    /\ tmp' = [tmp EXCEPT ![p] = EmptyFs]
    /\ result' = [result EXCEPT ![p] =
                    IF Exists(local[p], filepath) THEN "returned"
                    ELSE CheckFileExists(MultiFs(p), filepath, TRUE)]
    /\ pc' = [pc EXCEPT ![p] =
                IF ~Exists(local[p], filepath)
                     /\ CheckFileExists(MultiFs(p), filepath, TRUE) = "ok"
                THEN "copy_file" ELSE "idle"]
CopyFromEnter(p, filepath) ==
    LET chk == CheckFileExists(MultiFs(p), filepath, TRUE) IN
    /\ tmp' = [tmp EXCEPT ![p] = EmptyFs]
    /\ IF chk # "ok"
       THEN /\ result' = [result EXCEPT ![p] = chk]
            /\ pc' = [pc EXCEPT ![p] = "idle"]
       ELSE /\ result' = [result EXCEPT ![p] = "none"]
            /\ pc' = [pc EXCEPT ![p] = "copy_file"]

\* copy_from(file_name, from_dir) is called, from_path = filepath
CopyFromCall(p, filepath) ==
    /\ CopyCall(p, "copy_from", filepath)
    /\ CopyFromEnter(p, filepath)

\* get(filepath) is called: copy_from only if local_fs does not hold the
\* path; else the local file is opened and yielded at once
GetCall(p, filepath) ==
    /\ CopyCall(p, "get", filepath)
    /\ IF Exists(local[p], filepath)
       THEN /\ result' = [result EXCEPT ![p] = "returned"]
            /\ value' = [value EXCEPT ![p] = <<local[p][filepath]>>]
            /\ UNCHANGED <<pc, tmp>>
       ELSE CopyFromEnter(p, filepath)

\* the call of p ends: the TempFS is closed, which deletes its files;
\* copy_from returns, get opens the local file and yields it
CopyFromExitKeepsTmp(p, loc, error) ==
    /\ local' = [local EXCEPT ![p] = loc]
    /\ pc' = [pc EXCEPT ![p] = "idle"]
    /\ result' = [result EXCEPT ![p] = IF error = "ok" THEN "returned" ELSE error]
    /\ value' = [value EXCEPT ![p] =
                   IF error = "ok" /\ op[p] = "get"
                   THEN <<loc[args[p].file_name]>> ELSE <<>>]
    /\ UNCHANGED <<store, tmp, locks, op, args, curr, stderr, calls, version, hist,
                   connected, handles, state, tgrid, tprofile, inmem>>
CopyFromExit(p, loc, error) ==
    /\ tmp' = [tmp EXCEPT ![p] = EmptyFs]
    /\ local' = [local EXCEPT ![p] = loc]
    /\ pc' = [pc EXCEPT ![p] = "idle"]
    /\ result' = [result EXCEPT ![p] = IF error = "ok" THEN "returned" ELSE error]
    /\ value' = [value EXCEPT ![p] =
                   IF error = "ok" /\ op[p] = "get"
                   THEN <<loc[args[p].file_name]>> ELSE <<>>]
    /\ UNCHANGED <<store, locks, op, args, curr, stderr, calls, version, hist,
                   connected, handles, state, tgrid, tprofile, inmem>>

\* fs.copy.copy_file(self.fs, from_path, tmp_fs, from_path) starts: the file
\* is created in the TempFS
CopyFile(p) ==
    /\ pc[p] = "copy_file"
    /\ IF Which(MultiFs(p), args[p].file_name) = "None"
       THEN CopyFromExit(p, local[p], "ResourceNotFound")
       ELSE /\ tmp' = [tmp EXCEPT ![p] = Put(@, args[p].file_name, 0)]
            /\ pc' = [pc EXCEPT ![p] = "copying"]
            /\ UNCHANGED <<store, local, locks, op, args, curr, stderr, result,
                           value, calls, version, hist, connected, handles, state, tgrid, tprofile, inmem>>

\* copy_file ends: the TempFS holds the whole file of the member which() names
CopyFileEnd(p) ==
    /\ pc[p] = "copying"
    /\ LET path == args[p].file_name
           location == Which(MultiFs(p), path) IN
         /\ location # "None"
         /\ tmp' = [tmp EXCEPT ![p] = Put(@, path, store[location][path])]
    /\ pc' = [pc EXCEPT ![p] = "move_file"]
    /\ UNCHANGED <<store, local, locks, op, args, curr, stderr, result, value,
                   calls, version, hist, connected, handles, state, tgrid, tprofile, inmem>>

\* the backend raises while copy_file streams the file
CopyFileRaises(p) ==
    /\ pc[p] = "copying"
    /\ CopyFromExit(p, local[p], "RemoteConnectionError")

\* fs.move.move_file(tmp_fs, from_path, self.local_fs, from_path): the two
\* are different filesystems, so the file is renamed when the operating
\* system can rename across them, and else copied and then removed
MoveFile(p) ==
    /\ pc[p] = "move_file"
    /\ \/ CopyFromExit(p, Put(local[p], args[p].file_name, tmp[p][args[p].file_name]), "ok")
       \/ /\ local' = [local EXCEPT ![p] = Put(@, args[p].file_name, 0)]
          /\ pc' = [pc EXCEPT ![p] = "moving"]
          /\ UNCHANGED <<store, tmp, locks, op, args, curr, stderr, result, value,
                         calls, version, hist, connected, handles, state, tgrid, tprofile, inmem>>

\* the copy of move_file ends, and the source in the TempFS is removed
MoveFileEnd(p) ==
    /\ pc[p] = "moving"
    /\ CopyFromExit(p, Put(local[p], args[p].file_name, tmp[p][args[p].file_name]), "ok")

\* local_fs raises while move_file copies: the file it was writing is left
\* as it is, or removed
MoveFileRaises(p) ==
    /\ pc[p] = "moving"
    /\ \/ CopyFromExit(p, local[p], "OSError")
       \/ CopyFromExit(p, Remove(local[p], args[p].file_name), "OSError")

CopyNext ==
    \E p \in Procs :
        \/ \E filepath \in FacadeNames : CopyFromCall(p, filepath)
        \/ \E filepath \in FacadeNames : GetCall(p, filepath)
        \/ CopyFile(p)
        \/ CopyFileEnd(p)
        \/ CopyFileRaises(p)
        \/ MoveFile(p)
        \/ MoveFileEnd(p)
        \/ MoveFileRaises(p)

CopySpec == InitFacade /\ [][CopyNext]_vars

\* ---------------------------------------------------- LocalDataAccess.push
\* LocalSpec: each client is a LocalDataAccess; local[p] is its local_fs
\* (the data volume at root), which is also the writable member of its
\* MultiFS, above the profile container.

\* the edited copy push is given as `file_name`, located at the local root
EditNames == {"edit.csv"}

\* LocalDataAccess._get_fs: the members of the MultiFS and their files
LocalMembers == {"local_fs", "profile_fs"}

LocalPriority(m) == IF m = "local_fs" THEN 3 ELSE 2

LocalMultiFs(p) == [m \in LocalMembers |->
                      IF m = "local_fs" THEN local[p] ELSE store["profile_fs"]]

\* MultiFS.which on the MultiFS of a LocalDataAccess
LocalWhich(st, path) ==
    LET holders == {m \in LocalMembers : Exists(st[m], path)} IN
    IF holders = {} THEN "None"
    ELSE CHOOSE m \in holders : \A n \in holders : LocalPriority(m) >= LocalPriority(n)

\* no client has made a call
InitIdle ==
    /\ locks = {}
    /\ pc = [p \in Procs |-> "idle"]
    /\ op = [p \in Procs |-> "none"]
    /\ args = [p \in Procs |-> NoArgs]
    /\ curr = [p \in Procs |-> NoDigest]
    /\ stderr = [p \in Procs |-> {}]
    /\ result = [p \in Procs |-> "none"]
    /\ value = [p \in Procs |-> <<>>]
    /\ calls = [p \in Procs |-> 0]
    /\ version = [r \in Names |-> 0]
    /\ hist = [p \in Procs |-> NoHist]
    /\ tmp = [p \in Procs |-> EmptyFs]
    /\ InitNoScenario

\* the files a filesystem may hold at first: the edited copy or not, and
\* a.csv or not
InitFiles ==
    {e @@ a : e \in {EmptyFs} \cup {[q \in EditNames |-> c] : c \in Contents},
              a \in {EmptyFs} \cup {[q \in {"a.csv"} |-> c] : c \in Contents}}

InitLocalAccess ==
    /\ InitIdle
    /\ store \in {[ssh_fs |-> EmptyFs, profile_fs |-> b, scenario_fs |-> EmptyFs] :
                    b \in {EmptyFs, [q \in {"a.csv"} |-> NumContents]}}
    /\ local \in [Procs -> InitFiles]
    /\ connected = [p \in Procs |-> FALSE]
    /\ inmem = [p \in Procs |-> EmptyFs]

\* DataAccess.checksum(relative_path) of a LocalDataAccess
LocalChecksum(p, relative_path) ==
    /\ FacadeCall(p, "checksum", [NoArgs EXCEPT !.file_name = relative_path])
    /\ LET st == LocalMultiFs(p)
           location == LocalWhich(st, relative_path) IN
         IF location = "None"
         THEN /\ result' = [result EXCEPT ![p] = "ResourceNotFound"]
              /\ value' = [value EXCEPT ![p] = <<>>]
         ELSE /\ result' = [result EXCEPT ![p] = "returned"]
              /\ value' = [value EXCEPT ![p] = <<Checksum(st[location][relative_path])>>]
    /\ UNCHANGED <<store, local>>

\* LocalDataAccess.push(file_name, checksum, rename): the checksum of rename
\* is compared, then self.fs.move(file_name, rename, overwrite=True) reads
\* file_name through the MultiFS, writes rename in the writable member and
\* removes file_name from the writable member
LocalPush(p, file_name, checksum, rename) ==
    /\ FacadeCall(p, "push", [NoArgs EXCEPT !.file_name = file_name,
                                             !.checksum = checksum, !.rename = rename])
    /\ value' = [value EXCEPT ![p] = <<>>]
    /\ LET st == LocalMultiFs(p)
           at == LocalWhich(st, rename)
           from == LocalWhich(st, file_name) IN
         IF at = "None"
         THEN /\ result' = [result EXCEPT ![p] = "ResourceNotFound"]
              /\ UNCHANGED local
         ELSE IF ~ChecksumsEqual(checksum, Checksum(st[at][rename]))
         THEN /\ result' = [result EXCEPT ![p] = "ValueError"]
              /\ UNCHANGED local
         ELSE IF from = "None"
         THEN /\ result' = [result EXCEPT ![p] = "ResourceNotFound"]
              /\ UNCHANGED local
         ELSE IF ~Exists(local[p], file_name)
         THEN /\ result' = [result EXCEPT ![p] = "ResourceNotFound"]
              /\ local' = [local EXCEPT ![p] = Put(@, rename, st[from][file_name])]
         ELSE /\ result' = [result EXCEPT ![p] = "returned"]
              /\ local' = [local EXCEPT ![p] =
                             Remove(Put(@, rename, st[from][file_name]), file_name)]
    /\ UNCHANGED store

\* the values a caller passes as `checksum` to the push of a LocalDataAccess
\* or a MemoryDataAccess
CallerSha256 == {Checksum(c) : c \in Contents} \cup {NoDigest}

LocalNext ==
    \E p \in Procs :
        \/ \E f \in EditNames, h \in CallerSha256 : LocalPush(p, f, h, "a.csv")
        \/ LocalChecksum(p, "a.csv")

LocalSpec == InitLocalAccess /\ [][LocalNext]_vars

\* --------------------------------------------------- MemoryDataAccess.push
\* MemorySpec: each client is a MemoryDataAccess; local[p] is its local_fs
\* and inmem[p] the "in_memory" member of its MultiFS, both mem://.

InitMemoryAccess ==
    /\ InitIdle
    /\ store = [m \in Members |-> EmptyFs]
    /\ local \in [Procs -> InitFiles]
    /\ connected = [p \in Procs |-> FALSE]
    /\ inmem \in [Procs -> {EmptyFs} \cup {[q \in {"a.csv"} |-> c] : c \in Contents}]

\* the bookkeeping of a push call of a MemoryDataAccess
MemoryCall(p, file_name, checksum, rename) ==
    /\ pc[p] = "idle"
    /\ SumOver(calls, Procs) < MaxFacadeCalls
    /\ calls' = [calls EXCEPT ![p] = @ + 1]
    /\ op' = [op EXCEPT ![p] = "push"]
    /\ args' = [args EXCEPT ![p] = [NoArgs EXCEPT !.file_name = file_name,
                                                  !.checksum = checksum, !.rename = rename]]
    /\ value' = [value EXCEPT ![p] = <<>>]
    /\ UNCHANGED <<store, tmp, connected, handles, state, tgrid, tprofile, locks, pc, curr, stderr, version, hist>>

\* MemoryDataAccess.push(file_name, checksum, rename):
\* fs.move.move_file(self.local_fs, file_name, self.fs, rename)
MemoryPushGated(p, file_name, checksum, rename) ==
    /\ MemoryCall(p, file_name, checksum, rename)
    /\ IF ~Exists(inmem[p], rename) \/ checksum # Checksum(inmem[p][rename])
       THEN /\ result' = [result EXCEPT ![p] = "ValueError"]
            /\ UNCHANGED <<local, inmem>>
       ELSE IF ~Exists(local[p], file_name)
       THEN /\ result' = [result EXCEPT ![p] = "ResourceNotFound"]
            /\ UNCHANGED <<local, inmem>>
       ELSE /\ result' = [result EXCEPT ![p] = "returned"]
            /\ inmem' = [inmem EXCEPT ![p] = Put(@, rename, local[p][file_name])]
            /\ local' = [local EXCEPT ![p] = Remove(@, file_name)]
MemoryPush(p, file_name, checksum, rename) ==
    /\ MemoryCall(p, file_name, checksum, rename)
    /\ IF ~Exists(local[p], file_name)
       THEN /\ result' = [result EXCEPT ![p] = "ResourceNotFound"]
            /\ UNCHANGED <<local, inmem>>
       ELSE /\ result' = [result EXCEPT ![p] = "returned"]
            /\ inmem' = [inmem EXCEPT ![p] = Put(@, rename, local[p][file_name])]
            /\ local' = [local EXCEPT ![p] = Remove(@, file_name)]

MemoryNext ==
    \E p \in Procs, f \in EditNames \cup {"a.csv"}, h \in CallerSha256 :
        MemoryPush(p, f, h, "a.csv")

MemorySpec == InitMemoryAccess /\ [][MemoryNext]_vars

\* ------------------------------------------- DataAccess.get, as a scope
\* GetSpec: clients use `with data_access.get(filepath) as (f, path):`.  get
\* is a generator under @contextmanager: entering the scope runs it up to
\* its yield, inside `with self.local_fs.openbin(filepath) as f`; leaving
\* the scope, normally or by an exception of the body, resumes it there.

\* the scope is entered: copy_from if local_fs lacks the path, then the
\* local file is opened and yielded to the body
GetEnterScope(p, filepath) ==
    /\ pc[p] = "idle"
    /\ SumOver(calls, Procs) < MaxFacadeCalls
    /\ calls' = [calls EXCEPT ![p] = @ + 1]
    /\ op' = [op EXCEPT ![p] = "get"]
    /\ args' = [args EXCEPT ![p] = [NoArgs EXCEPT !.file_name = filepath]]
    /\ LET cp == IF Exists(local[p], filepath)
                 THEN [error |-> "ok", local |-> local[p]]
                 ELSE CopyFrom(MultiFs(p), local[p], filepath) IN
         /\ local' = [local EXCEPT ![p] = cp.local]
         /\ IF cp.error = "ok"
            THEN /\ handles' = [handles EXCEPT ![p] = @ + 1]
                 /\ value' = [value EXCEPT ![p] = <<cp.local[filepath]>>]
                 /\ result' = [result EXCEPT ![p] = "none"]
                 /\ pc' = [pc EXCEPT ![p] = "body"]
            ELSE /\ result' = [result EXCEPT ![p] = cp.error]
                 /\ value' = [value EXCEPT ![p] = <<>>]
                 /\ UNCHANGED <<handles, pc>>
    /\ UNCHANGED <<store, locks, curr, stderr, version, hist, tmp, connected, inmem,
                   state, tgrid, tprofile>>

\* the body ends: the generator resumes after the yield and the `with` of
\* get closes the file
GetBodyEnds(p) ==
    /\ pc[p] = "body"
    /\ handles' = [handles EXCEPT ![p] = @ - 1]
    /\ pc' = [pc EXCEPT ![p] = "idle"]
    /\ result' = [result EXCEPT ![p] = "returned"]
    /\ UNCHANGED <<store, local, locks, op, args, curr, stderr, value, calls, version,
                   hist, tmp, connected, inmem, state, tgrid, tprofile>>

\* the body raises: the exception is thrown into the generator at the
\* yield, the `with` of get closes the file and the exception goes on to
\* the caller
GetBodyRaisesLeaks(p) ==
    /\ pc[p] = "body"
    /\ pc' = [pc EXCEPT ![p] = "idle"]
    /\ result' = [result EXCEPT ![p] = "BodyError"]
    /\ UNCHANGED <<store, local, locks, op, args, curr, stderr, value, calls, version,
                   hist, tmp, connected, inmem, handles, state, tgrid, tprofile>>
GetBodyRaises(p) ==
    /\ pc[p] = "body"
    /\ handles' = [handles EXCEPT ![p] = @ - 1]
    /\ pc' = [pc EXCEPT ![p] = "idle"]
    /\ result' = [result EXCEPT ![p] = "BodyError"]
    /\ UNCHANGED <<store, local, locks, op, args, curr, stderr, value, calls, version,
                   hist, tmp, connected, inmem, state, tgrid, tprofile>>

GetNext ==
    \E p \in Procs :
        \/ \E filepath \in FacadeNames : GetEnterScope(p, filepath)
        \/ GetBodyEnds(p)
        \/ GetBodyRaises(p)

GetSpec == InitFacade /\ [][GetNext]_vars

\* ------------------------------------------ DataAccess.get_profile_version
\* VersionSpec: clients call get_profile_version; the lists that
\* get_profile_version_cloud and get_profile_version_local return are inputs.

\* the version lists the two helpers may return
VersionLists ==
    {<<>>, <<"vJan2021">>, <<"vFeb2022">>, <<"vJan2021", "vFeb2022">>,
     <<"vFeb2022", "vJan2021">>, <<"vJan2021", "vJan2021">>}

Range(s) == {s[i] : i \in 1..Len(s)}

\* list(set(blob_version + local_version)): the lists it may return (a set
\* is listed in an order of its own)
ListOfSetKeepsAll(blob_version, local_version) == {blob_version \o local_version}
ListOfSet(blob_version, local_version) ==
    LET S == Range(blob_version \o local_version) IN
    {s \in [1..Cardinality(S) -> S] : Range(s) = S}

\* DataAccess.get_profile_version(grid_model, kind)
GetProfileVersion(p, blob_version, local_version) ==
    /\ FacadeCall(p, "get_profile_version",
                  [NoArgs EXCEPT !.blob_version = blob_version,
                                 !.local_version = local_version])
    /\ result' = [result EXCEPT ![p] = "returned"]
    /\ \E versions \in ListOfSet(blob_version, local_version) :
         value' = [value EXCEPT ![p] = <<versions>>]
    /\ UNCHANGED <<store, local>>

InitVersion ==
    /\ InitIdle
    /\ store = [m \in Members |-> EmptyFs]
    /\ local = [p \in Procs |-> EmptyFs]
    /\ connected \in [Procs -> BOOLEAN]
    /\ inmem = [p \in Procs |-> EmptyFs]

VersionNext ==
    \E p \in Procs, blob_version \in VersionLists, local_version \in VersionLists :
        GetProfileVersion(p, blob_version, local_version)

VersionSpec == InitVersion /\ [][VersionNext]_vars

\* ------------------------------------------- push and write without the server
\* DegradedSpec: clients push and write; get_ssh_fs raised when p2 built
\* its MultiFS, and it may have raised for p1.
DegradedInit ==
    /\ InitIdle
    /\ store \in InitStores
    /\ local \in [Procs -> InitLocals]
    /\ connected \in {[p \in Procs |-> p = "p1" /\ ok] : ok \in BOOLEAN}
    /\ inmem = [p \in Procs |-> EmptyFs]

DegradedNext ==
    \/ Next
    \/ \E p \in Procs, filepath \in FacadeNames, data \in Contents, save_local \in BOOLEAN :
         Write(p, filepath, data, save_local)

DegradedSpec == DegradedInit /\ [][DegradedNext]_vars

\* ------------------------------------------- scenario/state.py: State.switch
\* The names a state class may have: _leave tells "create" and "analyze"
\* apart; "execute" stands for the classes State treats alike (execute,
\* delete, move).
StateNames == {"create", "execute", "analyze"}

\* the attributes State.__init__ sets
BaseAttrs == {"_ssh", "_scenario_list_manager"}

\* the attributes _leave removes for the state left
Owned(name) ==
    IF name = "create" THEN {"builder"}
    ELSE IF name = "analyze" THEN {"grid", "ct"}
    ELSE {}

AllOwned == UNION {Owned(n) : n \in StateNames}

\* the class attribute `allowed` of every subclass: any fixed table
AllowedTables == [StateNames -> SUBSET StateNames]

\* no data access call has been made by the scenario the state belongs to
InitNoAccess ==
    /\ store = [m \in Members |-> EmptyFs]
    /\ local = [p \in Procs |-> EmptyFs]
    /\ locks = {}
    /\ pc = [p \in Procs |-> "idle"]
    /\ op = [p \in Procs |-> "none"]
    /\ args = [p \in Procs |-> NoArgs]
    /\ curr = [p \in Procs |-> NoDigest]
    /\ stderr = [p \in Procs |-> {}]
    /\ result = [p \in Procs |-> "none"]
    /\ value = [p \in Procs |-> <<>>]
    /\ calls = [p \in Procs |-> 0]
    /\ version = [r \in Names |-> 0]
    /\ hist = [p \in Procs |-> NoHist]
    /\ tmp = [p \in Procs |-> EmptyFs]
    /\ connected = [p \in Procs |-> TRUE]
    /\ inmem = [p \in Procs |-> EmptyFs]
    /\ handles = [p \in Procs |-> 0]

\* A state object built by the constructor of a subclass: it holds the
\* attributes of State.__init__, those its class owns, and possibly others.
\* first, left and steps record the class it was built with, the class the
\* last reassignment replaced, and the steps of the switch in progress or
\* last made.
InitState ==
    /\ InitNoAccess
    /\ state \in {[name |-> n, attrs |-> BaseAttrs \cup Owned(n) \cup x,
                   allowed |-> tbl, pc |-> "idle", target |-> "none",
                   result |-> "none", first |-> n, left |-> "none",
                   steps |-> <<>>] :
                    n \in StateNames, x \in SUBSET AllOwned, tbl \in AllowedTables}
    /\ tgrid = NoObject
    /\ tprofile = NoObject

\* switch without the test of `allowed`
SwitchCallUnguarded(target) ==
    /\ state.pc = "idle"
    /\ state' = [state EXCEPT !.pc = "leave", !.target = target,
                              !.result = "none", !.steps = <<>>]
    /\ UNCHANGED <<dataAccessVars, tgrid, tprofile>>

\* switch(state), lines 27-36: the test of `allowed`; the else branch raises
SwitchCall(target) ==
    /\ state.pc = "idle"
    /\ IF target \in state.allowed[state.name]
       THEN state' = [state EXCEPT !.pc = "leave", !.target = target,
                                   !.result = "none", !.steps = <<>>]
       ELSE state' = [state EXCEPT !.target = target, !.steps = <<>>,
                                   !.result = "Exception: not permitted"]
    /\ UNCHANGED <<dataAccessVars, tgrid, tprofile>>

\* _leave that removes nothing
LeaveKeepsAll ==
    /\ state.pc = "leave"
    /\ state' = [state EXCEPT !.pc = "assign", !.steps = Append(@, "_leave")]
    /\ UNCHANGED <<dataAccessVars, tgrid, tprofile>>

\* self._leave(), lines 45-53: del of an attribute the object does not hold
\* raises AttributeError, which leaves switch; an earlier del of the same
\* _leave has taken effect
Leave ==
    /\ state.pc = "leave"
    /\ LET dels == IF state.name = "create" THEN <<"builder">>
                   ELSE IF state.name = "analyze" THEN <<"grid", "ct">>
                   ELSE <<>>
           missing == {i \in 1..Len(dels) : dels[i] \notin state.attrs}
           stop == IF missing = {} THEN Len(dels) + 1
                   ELSE CHOOSE i \in missing : \A j \in missing : i <= j
           gone == {dels[i] : i \in 1..(stop - 1)}
       IN  IF missing = {}
           THEN state' = [state EXCEPT !.attrs = @ \ gone, !.pc = "assign",
                                       !.steps = Append(@, "_leave")]
           ELSE state' = [state EXCEPT !.attrs = @ \ gone, !.pc = "idle",
                                       !.steps = Append(@, "_leave"),
                                       !.result = "AttributeError"]
    /\ UNCHANGED <<dataAccessVars, tgrid, tprofile>>

\* self.__class__ = state, line 31
Assign ==
    /\ state.pc = "assign"
    /\ state' = [state EXCEPT !.name = state.target, !.pc = "enter",
                              !.left = state.name,
                              !.steps = Append(@, "__class__")]
    /\ UNCHANGED <<dataAccessVars, tgrid, tprofile>>

\* self._enter(), lines 55-59: pass; switch returns
Enter ==
    /\ state.pc = "enter"
    /\ state' = [state EXCEPT !.pc = "idle", !.result = "returned",
                              !.steps = Append(@, "_enter")]
    /\ UNCHANGED <<dataAccessVars, tgrid, tprofile>>

StateNext ==
    \/ \E target \in StateNames : SwitchCall(target)
    \/ Leave
    \/ Assign
    \/ Enter

StateSpec == InitState /\ [][StateNext]_vars

\* ------------------------------------------- input/scaler.py: TransformGrid
\* A table of the grid is a sequence of rows in the order of the data frame;
\* a row has its index label and one capacity column (Pmax of plant and
\* dcline, rateA of branch). A change table has, per key, a dict from index
\* label to factor (an absent key is the empty dict) or a list of the
\* capacities of the entries to add (an absent key is the empty list).
\* Scaling by zone, generation costs and storage touch columns that are not
\* modelled.
MaxGetGrid == 2

EmptyDict == [i \in {} |-> 0]

Rows(n) == [i \in 1..n |-> [index |-> i - 1, cap |-> 1]]

Grids ==
    {[plant |-> Rows(np), branch |-> Rows(nb), dcline |-> Rows(nd)] :
        np \in {1, 2}, nb \in {1, 2, 3}, nd \in {1, 2}}

Dicts == {EmptyDict, [i \in {0} |-> 2]}

Entries == {<<>>, <<1>>, <<1, 1>>}

ChangeTables ==
    {[gen |-> g, branch |-> b, dcline |-> d,
      new_branch |-> nb, new_dcline |-> nd, new_plant |-> np] :
        g \in Dicts, b \in Dicts, d \in Dicts,
        nb \in Entries, nd \in Entries, np \in {<<>>, <<1>>}}

\* bool(self.ct): the dict has a key
HasKey(ct) ==
    \/ ct.gen # EmptyDict \/ ct.branch # EmptyDict \/ ct.dcline # EmptyDict
    \/ ct.new_branch # <<>> \/ ct.new_dcline # <<>> \/ ct.new_plant # <<>>

\* table.loc[id, column] *= factor, for every item of the dict
Scale(rows, dict) ==
    [i \in 1..Len(rows) |->
        IF rows[i].index \in DOMAIN dict
        THEN [rows[i] EXCEPT !.cap = @ * dict[rows[i].index]]
        ELSE rows[i]]

\* new_index = [self.grid.plant.index[-1] + 1], lines 173, 196 and 230
NewIndex(grid) == grid.plant[Len(grid.plant)].index + 1

\* _add_branch, lines 134-175: one row per entry, appended under new_index
RECURSIVE AddBranch(_, _)
AddBranch(grid, entries) ==
    IF entries = <<>> THEN grid
    ELSE AddBranch([grid EXCEPT !.branch =
                       Append(@, [index |-> NewIndex(grid),
                                  cap |-> Head(entries)])],
                   Tail(entries))

\* _add_dcline, lines 177-198
RECURSIVE AddDcline(_, _)
AddDcline(grid, entries) ==
    IF entries = <<>> THEN grid
    ELSE AddDcline([grid EXCEPT !.dcline =
                       Append(@, [index |-> NewIndex(grid),
                                  cap |-> Head(entries)])],
                   Tail(entries))

\* _add_plant, lines 207-232
RECURSIVE AddPlant(_, _)
AddPlant(grid, entries) ==
    IF entries = <<>> THEN grid
    ELSE AddPlant([grid EXCEPT !.plant =
                      Append(@, [index |-> NewIndex(grid),
                                 cap |-> Head(entries)])],
                  Tail(entries))

\* _apply_change_table, lines 36-60, in the order of the code
ApplyChangeTable(grid, ct) ==
    LET g1 == [grid EXCEPT !.plant = Scale(@, ct.gen)]
        g2 == [g1 EXCEPT !.branch = Scale(@, ct.branch)]
        g3 == [g2 EXCEPT !.dcline = Scale(@, ct.dcline)]
        g4 == AddBranch(g3, ct.new_branch)
        g5 == AddDcline(g4, ct.new_dcline)
    IN  AddPlant(g5, ct.new_plant)

\* TransformGrid(grid, ct), lines 14-25: self.grid and self.ct are deep
\* copies; input is what the caller passed and still holds, returned the
\* grids get_grid has returned, as they were on return
TransformGridInit(grid, ct) ==
    /\ tgrid = NoObject
    /\ tgrid' = [name |-> "TransformGrid", grid |-> grid, ct |-> ct,
                 input |-> [grid |-> grid, ct |-> ct], returned |-> <<>>]
    /\ UNCHANGED <<dataAccessVars, state, tprofile>>

\* get_grid(), lines 27-34: the change table is applied to self.grid, which
\* is returned
GetGrid ==
    /\ tgrid # NoObject
    /\ Len(tgrid.returned) < MaxGetGrid
    /\ LET grid == IF HasKey(tgrid.ct) THEN ApplyChangeTable(tgrid.grid, tgrid.ct)
                   ELSE tgrid.grid
       IN  tgrid' = [tgrid EXCEPT !.grid = grid, !.returned = Append(@, grid)]
    /\ UNCHANGED <<dataAccessVars, state, tprofile>>

InitGrid ==
    /\ InitNoAccess
    /\ state = NoObject
    /\ tgrid = NoObject
    /\ tprofile = NoObject

GridNext ==
    \/ \E grid \in Grids, ct \in ChangeTables : TransformGridInit(grid, ct)
    \/ GetGrid

GridSpec == InitGrid /\ [][GridNext]_vars

\* ------------------------------------------- input/scaler.py: TransformProfile
\* self.scale_keys, lines 344-347
ScaleKeys ==
    [wind |-> {"wind", "wind_offshore"}, solar |-> {"solar"},
     hydro |-> {"hydro"}, demand |-> {"demand"}]

\* possible, line 359
Possible == {"hydro", "solar", "wind"}

\* self.grid.plant: the zone and the type of every plant, by plant id
Plant ==
    [i \in {0, 1, 2, 3} |->
        [zone_id |-> 1,
         type |-> IF i = 0 THEN "wind" ELSE IF i = 1 THEN "wind_offshore"
                  ELSE IF i = 2 THEN "solar" ELSE "hydro"]]

GenTypes == {Plant[i].type : i \in DOMAIN Plant}

\* ct[r] of one type: a dict that may have the key zone_id (zone 1 scaled by
\* 2) and the key plant_id (the plant of the type scaled by 3)
TypeDicts(r) ==
    LET id == CHOOSE i \in DOMAIN Plant : Plant[i].type = r
        zone == [k \in {"zone_id"} |-> [z \in {1} |-> 2]]
        plant == [k \in {"plant_id"} |-> [i \in {id} |-> 3]]
    IN  {EmptyDict, zone, plant, zone @@ plant}

\* the change tables: any subset of the types as keys
ProfileChangeTables ==
    UNION {{ct \in [keys -> UNION {TypeDicts(r) : r \in keys}] :
              \A r \in keys : ct[r] \in TypeDicts(r)} : keys \in SUBSET GenTypes}

\* self._input_data.get_data(scenario_id, resource): a column per plant of
\* the resource, one timestamp
GetData(resource) ==
    [i \in {j \in DOMAIN Plant : Plant[j].type \in ScaleKeys[resource]} |-> 1]

\* type_in_zone.get_group((z, r)).index.tolist()
GetGroup(z, r) == {i \in DOMAIN Plant : Plant[i].zone_id = z /\ Plant[i].type = r}

\* profile.loc[:, columns] *= f for every item (key, f) of the dict, where
\* columns[key] are the columns the key names
ScaleColumns(profile, dict, columns) ==
    [i \in DOMAIN profile |->
        IF \E k \in DOMAIN dict : i \in columns[k]
        THEN profile[i] * dict[CHOOSE k \in DOMAIN dict : i \in columns[k]]
        ELSE profile[i]]

\* the body of the loop of _scale_plant_profile, lines 415-423: the plant_id
\* block is inside the zone_id block
ScaleType(profile, ct, r) ==
    IF r \in DOMAIN ct /\ "zone_id" \in DOMAIN ct[r]
    THEN LET byZone == [z \in DOMAIN ct[r]["zone_id"] |-> GetGroup(z, r)]
             p1 == ScaleColumns(profile, ct[r]["zone_id"], byZone)
         IN  IF r \in DOMAIN ct /\ "plant_id" \in DOMAIN ct[r]
             THEN ScaleColumns(p1, ct[r]["plant_id"],
                               [i \in DOMAIN ct[r]["plant_id"] |-> {i}])
             ELSE p1
    ELSE profile

\* _scale_plant_profile(profile, resource), lines 407-425
RECURSIVE ScalePlantProfileOver(_, _, _)
ScalePlantProfileOver(profile, ct, types) ==
    IF types = {} THEN profile
    ELSE LET r == CHOOSE x \in types : TRUE
         IN  ScalePlantProfileOver(ScaleType(profile, ct, r), ct, types \ {r})

ScalePlantProfile(profile, ct, resource) ==
    ScalePlantProfileOver(profile, ct, ScaleKeys[resource])

\* TransformProfile(ssh_client, scenario_id, grid, ct), lines 334-347, for a
\* change table without new_plant; self.ct is a deep copy
TransformProfileInit(ct) ==
    /\ tprofile = NoObject
    /\ tprofile' = [name |-> "TransformProfile", ct |-> ct, resource |-> "none",
                    scaled |-> FALSE, data |-> EmptyDict, power_output |-> EmptyDict]
    /\ UNCHANGED <<dataAccessVars, state, tgrid>>

\* get_power_output(resource), lines 350-372; scaled tells whether
\* _scale_plant_profile was called, data is what get_data returned
GetPowerOutput(resource) ==
    /\ tprofile # NoObject
    /\ resource \in Possible
    /\ LET power_output == GetData(resource)
           scaled == DOMAIN tprofile.ct # {} /\ resource \in DOMAIN tprofile.ct
       IN  tprofile' = [tprofile EXCEPT
                          !.resource = resource,
                          !.data = power_output,
                          !.scaled = scaled,
                          !.power_output =
                             IF scaled
                             THEN ScalePlantProfile(power_output, tprofile.ct, resource)
                             ELSE power_output]
    /\ UNCHANGED <<dataAccessVars, state, tgrid>>

\* get_power_output with a resource that is not possible, lines 360-364:
\* ValueError, nothing is read
GetPowerOutputInvalid(resource) ==
    /\ tprofile # NoObject
    /\ resource \notin Possible
    /\ tprofile' = [tprofile EXCEPT !.resource = resource, !.scaled = FALSE,
                                    !.data = EmptyDict, !.power_output = EmptyDict]
    /\ UNCHANGED <<dataAccessVars, state, tgrid>>

InitProfile ==
    /\ InitNoAccess
    /\ state = NoObject
    /\ tgrid = NoObject
    /\ tprofile = NoObject

ProfileNext ==
    \/ \E ct \in ProfileChangeTables : TransformProfileInit(ct)
    \/ \E resource \in Possible : GetPowerOutput(resource)
    \/ \E resource \in DOMAIN ScaleKeys \ Possible : GetPowerOutputInvalid(resource)

ProfileSpec == InitProfile /\ [][ProfileNext]_vars

\* the remote command of client p runs under the lock of step 2
InCompareAndRename(p) == pc[p] \in {"sha1sum", "compare", "unlock"}

\* the remote command of client p holds flock on some lock file
HoldsLock(p) == \E held \in locks : held[2] = p

\* p's push has ended
PushEnded(p) == op[p] = "push" /\ pc[p] = "idle"

\* ------------------------------------------------------------------ claims

\* C1: a push whose caller-supplied checksum differs from the checksum the
\* locked compare step computes writes CONFLICT_ERROR, raises IOError, and
\* no step of that push changes the canonical file at `rename`.
C1_ConflictLeavesCanonical ==
    [][\A p \in Procs :
         (pc'[p] # pc[p] /\ pc[p] # "idle"
            /\ ~(pc[p] = "compare" /\ args[p].checksum = curr[p]))
         => /\ FileAt(ssh', args[p].rename) = FileAt(ssh, args[p].rename)
            /\ (pc[p] = "compare" => "CONFLICT_ERROR" \in stderr'[p])
            /\ (pc[p] = "errors" /\ "CONFLICT_ERROR" \in stderr[p]
                  => result'[p] = "IOError")]_vars

\* C1 witness: a push carrying the checksum of an earlier version has raised
\* and the canonical file holds the other content.
C1_Witness ==
    \E p \in Procs :
        /\ PushEnded(p) /\ result[p] = "IOError"
        /\ "CONFLICT_ERROR" \in stderr[p]
        /\ args[p].checksum.alg = "sha1"
        /\ Exists(ssh, args[p].rename)
        /\ ssh[args[p].rename] # args[p].checksum.of
        /\ hist[p].seen = <<ssh[args[p].rename]>>

\* C2: when the checksum matches the canonical file's at the compare step,
\* the step writes no error, the canonical file holds the content this push
\* staged, the staged file is gone and the previous content is in the backup.
C2_MatchInstallsPushedFile ==
    [][\A p \in Procs :
         (pc[p] = "compare" /\ pc'[p] # pc[p]
            /\ Exists(ssh, args[p].rename) /\ args[p].checksum = curr[p])
         => /\ stderr'[p] = {}
            /\ FileAt(ssh', args[p].rename) = hist[p].sent
            /\ ~Exists(ssh', BackupPath(args[p].rename))
            /\ FileAt(ssh', MvBackupPath(args[p].rename)) = FileAt(ssh, args[p].rename)]_vars

\* C3 as claimed: two pushes with the same rename and the same checksum
\* never both return.
C3_AtMostOneReturns ==
    \A p, q \in Procs :
        (p # q /\ PushEnded(p) /\ PushEnded(q)
           /\ args[p].rename = args[q].rename /\ args[p].checksum = args[q].checksum)
        => ~(result[p] = "returned" /\ result[q] = "returned")

\* C3 amended: a push that returns replaced a canonical file whose checksum
\* was the one it carried, and two pushes that return never replaced the
\* same installed version of the file.
C3_OneWinnerPerVersion ==
    \A p, q \in Procs :
        (PushEnded(p) /\ result[p] = "returned")
        => /\ hist[p].seen # <<>>
           /\ args[p].checksum = Sha1sumLine(FullPath(args[p].rename), hist[p].seen[1])
           /\ (p # q /\ PushEnded(q) /\ result[q] = "returned"
                 /\ args[p].rename = args[q].rename)
              => hist[p].replaced # hist[q].replaced

\* C3 witness: two pushes with the same rename and checksum, one returned and
\* the other raised the conflict.
C3_Witness ==
    \E p, q \in Procs :
        /\ p # q /\ PushEnded(p) /\ PushEnded(q)
        /\ args[p].rename = args[q].rename /\ args[p].checksum = args[q].checksum
        /\ result[p] = "returned" /\ result[q] = "IOError"
        /\ "CONFLICT_ERROR" \in stderr[q]

\* C4: a push that returned installed the content it staged itself.
C4_InstalledOwnEdit ==
    \A p \in Procs :
        (PushEnded(p) /\ result[p] = "returned")
        => hist[p].installed = hist[p].sent

\* C5: a push carrying the digest checksum() returns for the content the
\* canonical file holds at the compare step reports no conflict.
C5_NoSpuriousConflict ==
    \A p \in Procs :
        (op[p] = "push" /\ hist[p].seen # <<>>
           /\ args[p].checksum = SshFsChecksum(FullPath(args[p].rename), hist[p].seen[1]))
        => "CONFLICT_ERROR" \notin stderr[p]

\* C6: a client holds the lock exactly while its remote command is between
\* flock and the end of the subshell: not while it checks or stages, and not
\* once its push has returned or raised; and a lock that is held is
\* eventually released, whether the command compared equal, unequal or failed.
LockHeldInStepTwoOnly ==
    \A p \in Procs : HoldsLock(p) <=> InCompareAndRename(p)

C6_LockOnlyInStepTwo ==
    /\ []LockHeldInStepTwoOnly
    /\ \A p \in Procs : HoldsLock(p) ~> ~HoldsLock(p)

\* C6 witness: a push has raised, its lock is free, and the other client's
\* push holds the lock.
C6_Witness ==
    \E p, q \in Procs :
        /\ PushEnded(p) /\ result[p] = "IOError" /\ hist[p].seen # <<>>
        /\ ~HoldsLock(p)
        /\ HoldsLock(q)

C8_StaleBackupFailsFast ==
    [][\A p \in Procs :
         (calls'[p] # calls[p]
            /\ Holders(store, BackupPath(args'[p].rename)) # {})
         => /\ result'[p] = "OSError: already exists"
            /\ pc'[p] = "idle"
            /\ store' = store /\ local' = local
            /\ locks' = locks /\ stderr'[p] = {}]_vars

\* C8 witness: a push has raised already-exists; the staged file is in a
\* container and the local file is still there.
C8_Witness ==
    \E p \in Procs :
        /\ PushEnded(p) /\ result[p] = "OSError: already exists"
        /\ Exists(store["profile_fs"], BackupPath(args[p].rename))
        /\ Exists(local[p], args[p].file_name)

\* C9 as claimed: write to a path that any backend holds, local_fs included,
\* raises already-exists and changes no file.
C9_CreateOnlyAnyBackend ==
    [][\A p \in Procs :
         (calls'[p] # calls[p] /\ op'[p] = "write"
            /\ (Holders(MultiFs(p), args'[p].file_name) # {}
                  \/ Exists(local[p], args'[p].file_name)))
         => /\ result'[p] = "OSError: already exists"
            /\ store' = store /\ local' = local]_vars

\* C9 amended: write to a path that a member of the MultiFS holds raises
\* already-exists and changes no file of any member or of local_fs; a path
\* that only local_fs holds is not refused.
C9_CreateOnlyInStore ==
    [][\A p \in Procs :
         (calls'[p] # calls[p] /\ op'[p] = "write"
            /\ Holders(MultiFs(p), args'[p].file_name) # {})
         => /\ result'[p] = "OSError: already exists"
            /\ store' = store /\ local' = local]_vars

\* C9 witness: a write was refused for a path only a container holds.
C9_Witness ==
    \E p \in Procs :
        /\ op[p] = "write" /\ result[p] = "OSError: already exists"
        /\ Which(store, args[p].file_name) = "profile_fs"
        /\ ~Exists(local[p], args[p].file_name)

\* C10: get and checksum of a path that neither local_fs nor any member of
\* the MultiFS holds raise not-found, and the path is still absent from all.
C10_AbsentPathNotFound ==
    [][\A p \in Procs :
         (calls'[p] # calls[p] /\ op'[p] \in {"get", "checksum"}
            /\ Holders(MultiFs(p), args'[p].file_name) = {}
            /\ ~Exists(local[p], args'[p].file_name))
         => /\ result'[p] = "OSError: not found"
            /\ value'[p] = <<>>
            /\ store' = store
            /\ ~Exists(local'[p], args'[p].file_name)]_vars

\* C10 witness: a get and a checksum of a path no backend holds have raised.
C10_Witness ==
    \E p, q \in Procs, path \in FacadeNames :
        /\ op[p] = "get" /\ op[q] = "checksum"
        /\ args[p].file_name = path /\ args[q].file_name = path
        /\ result[p] = "OSError: not found" /\ result[q] = "OSError: not found"
        /\ Holders(MultiFs(p), path) = {} /\ Holders(MultiFs(q), path) = {}
        /\ \A c \in Procs : ~Exists(local[c], path)

\* C11: in every state of a running copy_from the path in local_fs is absent
\* or holds the whole file: a file that is not filled yet is in the TempFS
\* only, and move_file starts only when the TempFS holds the whole file.
C11_LocalNeverPartial ==
    \A p \in Procs :
        pc[p] \in CopyFromPcs =>
            /\ \A path \in DOMAIN local[p] : local[p][path] # 0
            /\ pc[p] \in {"move_file", "moving"} =>
                   /\ Exists(tmp[p], args[p].file_name)
                   /\ tmp[p][args[p].file_name] # 0

\* C12 as claimed: a copy_from of a path that local_fs already holds makes
\* no transfer from the MultiFS.
C12_NoSecondTransfer ==
    [][\A p \in Procs :
         (op[p] = "copy_from" /\ pc[p] = "copy_file" /\ pc'[p] = "copying")
         => ~Exists(local[p], args[p].file_name)]_vars

\* C12 amended: copy_from does not look at local_fs: every copy_from of a
\* path the MultiFS holds starts a transfer, also when local_fs holds the
\* path, and when it returns the path in local_fs holds the content of the
\* member of highest priority (the same path and, with the MultiFS
\* unchanged, the same content after each call).
C12_AlwaysTransfers ==
    [][\A p \in Procs :
         /\ (calls'[p] # calls[p] /\ op'[p] = "copy_from"
               /\ Holders(MultiFs(p), args'[p].file_name) # {})
            => pc'[p] = "copy_file"
         /\ (op[p] = "copy_from" /\ pc[p] \in CopyFromPcs /\ pc'[p] = "idle"
               /\ result'[p] = "returned")
            => /\ Exists(local'[p], args[p].file_name)
               /\ local'[p][args[p].file_name]
                    = store[Which(MultiFs(p), args[p].file_name)][args[p].file_name]]_vars

\* C12 witness: a copy_from is transferring a path that local_fs holds.
C12_Witness ==
    \E p \in Procs :
        /\ op[p] = "copy_from" /\ pc[p] = "copying"
        /\ Exists(local[p], args[p].file_name)
        /\ local[p][args[p].file_name] # 0

\* the content a read of path through the MultiFS st has to give: that of
\* ssh_fs if it holds the path, else of profile_fs, else of scenario_fs
HighestHolderContent(st, path) ==
    IF Exists(st["ssh_fs"], path) THEN st["ssh_fs"][path]
    ELSE IF Exists(st["profile_fs"], path) THEN st["profile_fs"][path]
    ELSE st["scenario_fs"][path]

\* C13: a read through the MultiFS uses the holder of highest priority,
\* ssh_fs (3) before profile_fs (2) before scenario_fs (1): a get that
\* copies yields that holder's content, and get and the existence check of
\* write find the path iff some member holds it.
C13_HighestPriorityHolder ==
    [][\A p \in Procs :
         LET path == args'[p].file_name
             held == \E m \in GetMultiFs(connected[p]) : Exists(store[m], path) IN
         /\ (calls'[p] # calls[p] /\ op'[p] = "get" /\ ~Exists(local[p], path))
            => /\ held => /\ result'[p] = "returned"
                          /\ value'[p] = <<HighestHolderContent(MultiFs(p), path)>>
                          /\ local'[p][path] = HighestHolderContent(MultiFs(p), path)
               /\ ~held <=> result'[p] = "OSError: not found"
         /\ (calls'[p] # calls[p] /\ op'[p] = "write")
            => (held <=> result'[p] = "OSError: already exists")]_vars

\* C13 witness: a get has copied a path that profile_fs and scenario_fs hold
\* with different contents, and yielded the content of profile_fs.
C13_Witness ==
    \E p \in Procs :
        LET path == args[p].file_name IN
        /\ op[p] = "get" /\ result[p] = "returned"
        /\ ~Exists(MultiFs(p)["ssh_fs"], path)
        /\ Exists(store["profile_fs"], path) /\ Exists(store["scenario_fs"], path)
        /\ store["profile_fs"][path] # store["scenario_fs"][path]
        /\ value[p] = <<store["profile_fs"][path]>>
        /\ local[p][path] = store["profile_fs"][path]

C15_ReadThroughCache ==
    [][\A p \in Procs :
         LET path == args'[p].file_name
             location == Which(MultiFs(p), path) IN
         (calls'[p] # calls[p] /\ op'[p] = "get")
         => /\ (~Exists(local[p], path) /\ location # "None")
               => /\ result'[p] = "returned"
                  /\ local'[p] = Put(local[p], path, store[location][path])
                  /\ value'[p] = <<store[location][path]>>
            /\ Exists(local[p], path)
               => /\ result'[p] = "returned"
                  /\ value'[p] = <<local[p][path]>>
                  /\ local' = local
            /\ store' = store]_vars

\* C15 witness: one get has copied a path into local_fs, and one get has
\* yielded a local file that the MultiFS holds with another content or does
\* not hold.
C15_Witness ==
    \E p, q \in Procs :
        /\ op[p] = "get" /\ result[p] = "returned"
        /\ op[q] = "get" /\ result[q] = "returned"
        /\ p # q
        /\ LET path == args[p].file_name
               location == Which(MultiFs(p), path) IN
             /\ location # "None"
             /\ value[p] = <<local[p][path]>>
             /\ local[p][path] # store[location][path]
        /\ LET path == args[q].file_name
               location == Which(MultiFs(q), path) IN
             /\ location # "None"
             /\ value[q] = <<store[location][path]>>
             /\ local[q][path] = store[location][path]

\* C16: a write(p, data, save_local) that passes the existence check writes
\* the writable member first and local_fs after it.  When it returns, the
\* writable member holds path p with the serialized data, local_fs holds
\* the same bytes at p iff save_local, and with save_local false local_fs
\* is unchanged.  When the write of the store raises, local_fs is
\* unchanged.  No path other than p changes in any member or in any
\* local_fs.
C16_WriteFrame ==
    [][\A p \in Procs :
         LET path == args'[p].file_name
             data == args'[p].data IN
         (calls'[p] # calls[p] /\ op'[p] = "write")
         => /\ result'[p] = "returned"
               => /\ ~Exists(MultiFs(p)[WriteFs], path)
                  /\ store'[WriteFs] = Put(store[WriteFs], path, data)
                  /\ local'[p] = IF args'[p].save_local
                                 THEN Put(local[p], path, data) ELSE local[p]
            /\ result'[p] # "returned" => local' = local
            /\ \A m \in Members \ {WriteFs} : store'[m] = store[m]
            /\ \A q \in DOMAIN store'[WriteFs] \cup DOMAIN store[WriteFs] :
                 q # path => FileAt(store'[WriteFs], q) = FileAt(store[WriteFs], q)
            /\ \A c \in Procs \ {p} : local'[c] = local[c]
            /\ \A q \in DOMAIN local'[p] \cup DOMAIN local[p] :
                 q # path => FileAt(local'[p], q) = FileAt(local[p], q)]_vars

\* C16 witness: a write with save_local has returned and the server and
\* local_fs hold the data; another write with save_local has raised in the
\* serializer and local_fs of that client does not hold its path.
C16_Witness ==
    \E p, q \in Procs :
        /\ p # q
        /\ op[p] = "write" /\ result[p] = "returned" /\ args[p].save_local
        /\ FileAt(ssh, args[p].file_name) = <<args[p].data>>
        /\ FileAt(local[p], args[p].file_name) = <<args[p].data>>
        /\ op[q] = "write" /\ result[q] = "ValueError" /\ args[q].save_local
        /\ ~Exists(local[q], args[q].file_name)

\* C17: remove with confirm deletes only when the answer is "y" or "Y":
\* after any other answer it returns and no file of any member or local_fs
\* has changed.  With confirm false, or after "y", it removes the matching
\* files without further question: only matching files of the writable
\* member are removed, and when all matches are on the writable member it
\* returns and none of them is left.
C17_ConfirmationGate ==
    [][\A p \in Procs :
         LET a == args'[p]
             matched == {path \in UNION {DOMAIN MultiFs(p)[m] : m \in Members} :
                           Matches(a.pattern, path)} IN
         (calls'[p] # calls[p] /\ op'[p] = "remove")
         => /\ (a.confirm /\ a.answer \notin {"y", "Y"})
               => /\ store' = store /\ local' = local
                  /\ result'[p] = "returned"
            /\ (~a.confirm \/ a.answer \in {"y", "Y"})
               => /\ local' = local
                  /\ \A m \in Members \ {WriteFs} : store'[m] = store[m]
                  /\ \A q \in DOMAIN store[WriteFs] :
                       \/ FileAt(store'[WriteFs], q) = FileAt(store[WriteFs], q)
                       \/ q \in matched /\ ~Exists(store'[WriteFs], q)
                  /\ DOMAIN store'[WriteFs] \subseteq DOMAIN store[WriteFs]
                  /\ (connected[p] /\ matched \subseteq DOMAIN store[WriteFs])
                     => /\ result'[p] = "returned"
                        /\ matched \cap DOMAIN store'[WriteFs] = {}]_vars

\* C17 witness: a remove was answered "no" and has returned, and the server
\* still holds a file its glob matches.
C17_Witness ==
    \E p \in Procs, path \in FacadeNames :
        /\ op[p] = "remove" /\ args[p].confirm /\ args[p].answer = "no"
        /\ result[p] = "returned"
        /\ connected[p]
        /\ Matches(args[p].pattern, path) /\ Exists(ssh, path)

\* C18: the TempFS of a copy_from holds a file only while that call runs:
\* when the call has ended, by returning or by raising during the copy or
\* the relocation, the TempFS holds nothing; and the only file it ever holds
\* is the one being copied.  The TempFS is no member of the MultiFS and is
\* not local_fs (it is a variable of its own that only the steps of the
\* owning call read).
C18_StagingLifetime ==
    \A p \in Procs :
        /\ pc[p] \notin CopyFromPcs => tmp[p] = EmptyFs
        /\ tmp[p] # EmptyFs => /\ op[p] \in {"copy_from", "get"}
                               /\ DOMAIN tmp[p] = {args[p].file_name}

\* C18 witness: one call has raised during the copy and one during the
\* relocation, and both TempFS are empty.
C18_Witness ==
    \E p, q \in Procs :
        /\ pc[p] = "idle" /\ result[p] = "RemoteConnectionError"
        /\ pc[q] = "idle" /\ result[q] = "OSError"
        /\ tmp[p] = EmptyFs /\ tmp[q] = EmptyFs

\* C19: the push of a LocalDataAccess is a rename gated by the checksum.
\* When the checksum given differs from the sha256 of rename (or rename
\* has none), push raises and file_name and rename are unchanged.  When it
\* is equal and file_name is a file of the local root, push returns, rename
\* holds the former content of file_name and file_name exists no more.
C19_ChecksumGatedRename ==
    [][\A p \in Procs :
         LET a == args'[p]
             st == LocalMultiFs(p)
             at == LocalWhich(st, a.rename)
             equal == at # "None" /\ a.checksum = Sha256(st[at][a.rename]) IN
         (calls'[p] # calls[p] /\ op'[p] = "push")
         => /\ ~equal => /\ result'[p] \notin {"returned", "none"}
                         /\ local' = local /\ store' = store
            /\ (equal /\ Exists(local[p], a.file_name))
               => /\ result'[p] = "returned"
                  /\ FileAt(local'[p], a.rename) = <<local[p][a.file_name]>>
                  /\ ~Exists(local'[p], a.file_name)
                  /\ store' = store]_vars

\* C19 witness: one push was refused for its checksum and left both files;
\* one push has renamed its file over another content.
C19_Witness ==
    \E p, q \in Procs :
        /\ p # q
        /\ op[p] = "push" /\ result[p] = "ValueError"
        /\ Exists(local[p], args[p].file_name) /\ Exists(local[p], args[p].rename)
        /\ args[p].checksum # Sha256(local[p][args[p].rename])
        /\ op[q] = "push" /\ result[q] = "returned"
        /\ ~Exists(local[q], args[q].file_name)
        /\ Exists(local[q], args[q].rename)
        /\ args[q].checksum # Sha256(local[q][args[q].rename])

\* C20: the push of a MemoryDataAccess has no checksum gate: whatever
\* checksum is given, equal to that of rename or not, a push of a file
\* that local_fs holds returns, rename in the in-memory store holds the
\* content file_name had, in place of any earlier content, and local_fs
\* holds file_name no more.
C20_NoChecksumGate ==
    [][\A p \in Procs :
         LET a == args'[p] IN
         (calls'[p] # calls[p] /\ op'[p] = "push" /\ Exists(local[p], a.file_name))
         => /\ result'[p] = "returned"
            /\ inmem'[p] = Put(inmem[p], a.rename, local[p][a.file_name])
            /\ local'[p] = Remove(local[p], a.file_name)]_vars

\* C20 witness: a push given a checksum that is the checksum of no content
\* has returned; rename is in the in-memory store and file_name has left
\* local_fs.
C20_Witness ==
    \E p \in Procs :
        /\ op[p] = "push" /\ result[p] = "returned"
        /\ args[p].checksum = NoDigest
        /\ args[p].file_name \in EditNames
        /\ Exists(inmem[p], args[p].rename)
        /\ ~Exists(local[p], args[p].file_name)

\* C21: a write to a path whose extension is none of pkl, csv, mat raises
\* the serializer's error and creates nothing: the path is afterwards absent
\* from every member of the MultiFS and from local_fs.
C21_UnknownExtensionCreatesNothing ==
    [][\A p \in Procs :
         LET path == args'[p].file_name IN
         (calls'[p] # calls[p] /\ op'[p] = "write"
            /\ Ext(path) \notin {"pkl", "csv", "mat"}
            /\ Holders(MultiFs(p), path) = {} /\ WriteFsOf(p) # "None")
         => /\ result'[p] = "ValueError"
            /\ Holders(store', path) = {}
            /\ local' = local]_vars

\* C22: the file get opens in local_fs is open exactly while the body of
\* the scope runs: a client holds one open file while it is in the body
\* and none before the call, after the body has ended and after the body
\* has raised.
C22_HandleReleased ==
    \A p \in Procs :
        /\ handles[p] = IF pc[p] = "body" THEN 1 ELSE 0
        /\ pc[p] = "body" => /\ op[p] = "get"
                             /\ Exists(local[p], args[p].file_name)

\* C22 witness: the body of one get has raised and its file is closed,
\* the body of another get has ended and its file is closed.
C22_Witness ==
    \E p, q \in Procs :
        /\ op[p] = "get" /\ result[p] = "BodyError" /\ handles[p] = 0
        /\ op[q] = "get" /\ result[q] = "returned" /\ handles[q] = 0

C24_ConflictLeavesBothFiles ==
    [][\A p \in Procs :
         (pc[p] = "errors" /\ pc'[p] = "idle" /\ "CONFLICT_ERROR" \in stderr[p])
         => /\ FileAt(ssh', BackupPath(args[p].rename)) = hist[p].sent
            /\ FileAt(ssh', args[p].rename) = hist[p].seen
            /\ ~Exists(local'[p], args[p].file_name)
            /\ CheckFileExists(store', BackupPath(args[p].rename), FALSE)
                 = "OSError: already exists"]_vars

\* C25: a client built without the server connection has no writable
\* filesystem: every step of its write or push leaves all filesystems, the
\* server's and its own local one, as they were, and the call ends with an
\* error.
C25_DegradedWritesFail ==
    [][\A p \in Procs :
         (/\ ~connected[p]
          /\ (calls'[p] # calls[p] \/ pc'[p] # pc[p])
          /\ op'[p] \in {"write", "push"})
         => /\ store' = store
            /\ local' = local
            /\ inmem' = inmem
            /\ (pc'[p] = "idle" => result'[p] \notin {"returned", "none"})]_vars

\* C25 witness: without the connection, one client's write and the other's
\* push of a file it holds have both raised ResourceReadOnly, and the pushed
\* file is still in the local folder
C25_Witness ==
    /\ ~connected["p1"]
    /\ ~connected["p2"]
    /\ op["p1"] = "write" /\ pc["p1"] = "idle" /\ result["p1"] = "ResourceReadOnly"
    /\ op["p2"] = "push" /\ pc["p2"] = "idle" /\ result["p2"] = "ResourceReadOnly"
    /\ Exists(local["p2"], args["p2"].file_name)

\* the state names that can be reached from `from` along the table
RECURSIVE ReachableAlong(_, _, _)
ReachableAlong(tbl, seen, n) ==
    IF n = 0 THEN seen
    ELSE ReachableAlong(tbl, seen \cup UNION {tbl[s] : s \in seen}, n - 1)

SwitchSteps == <<"_leave", "__class__", "_enter">>

\* C27: the steps of a switch are taken in the order _leave, reassignment of
\* the class, _enter; a _leave that completes removes exactly the attributes
\* owned by the state left (builder for create, grid and ct for analyze);
\* and after a switch that returned the object is in the target state, all
\* three steps were taken, and it holds no attribute owned by the state left.
C27_LeaveAssignEnter ==
    /\ [](\E n \in 0..Len(SwitchSteps) : state.steps = SubSeq(SwitchSteps, 1, n))
    /\ [][(state.pc = "leave" /\ state'.pc = "assign")
            => /\ state'.attrs = state.attrs \ Owned(state.name)
               /\ state'.name = state.name]_vars
    /\ []((state.pc = "idle" /\ state.result = "returned")
            => /\ state.steps = SwitchSteps
               /\ state.name = state.target
               /\ state.attrs \cap Owned(state.left) = {})

\* C27 witness: a switch out of analyze has returned; the object held grid
\* and ct when it was built and holds neither now
C27_Witness ==
    /\ state.pc = "idle"
    /\ state.result = "returned"
    /\ state.first = "analyze"
    /\ state.left = "analyze"
    /\ state.name = "execute"
    /\ state.steps = SwitchSteps
    /\ state.attrs \cap {"grid", "ct"} = {}

\* the index labels of a table are pairwise different
UniqueIndex(rows) ==
    \A i, j \in 1..Len(rows) : rows[i].index = rows[j].index => i = j

\* C28: in the grid get_grid returns, the rows added by new_branch and by
\* new_dcline have index labels that differ from every other label of their
\* table, so the labels of the branch table and of the dcline table are
\* pairwise different (as they were in the grid passed in).
C28_NewIndexUnique ==
    (tgrid # NoObject /\ tgrid.returned # <<>>)
    => /\ UniqueIndex(tgrid.returned[1].branch)
       /\ UniqueIndex(tgrid.returned[1].dcline)

\* C30: get_grid leaves the grid and the change table passed to the
\* constructor as they were, and a second call returns a grid equal to the
\* one the first call returned.
C30_GetGridIdempotent ==
    [][/\ (tgrid # NoObject /\ tgrid' # NoObject) => tgrid'.input = tgrid.input
       /\ (tgrid # NoObject /\ tgrid.returned # <<>>
             /\ Len(tgrid'.returned) > Len(tgrid.returned))
            => tgrid'.returned[Len(tgrid'.returned)] = tgrid.returned[1]]_vars

\* C29: whenever _scale_plant_profile ran, for every type r of
\* scale_keys[resource] whose dict ct[r] has the key plant_id, the column of
\* every plant listed there is the column of the unscaled profile times the
\* factors of the zones of ct[r] that hold the plant, times the plant's own
\* factor; with or without the key zone_id.
C29_PlantFactorsApplied ==
    (tprofile # NoObject /\ tprofile.scaled)
    => \A r \in ScaleKeys[tprofile.resource] \cap DOMAIN tprofile.ct :
         "plant_id" \in DOMAIN tprofile.ct[r]
         => \A i \in DOMAIN tprofile.ct[r]["plant_id"] :
              LET zones == IF "zone_id" \in DOMAIN tprofile.ct[r]
                           THEN {z \in DOMAIN tprofile.ct[r]["zone_id"] : i \in GetGroup(z, r)}
                           ELSE {}
                  byZone == IF zones = {} THEN 1
                            ELSE tprofile.ct[r]["zone_id"][CHOOSE z \in zones : TRUE]
              IN  tprofile.power_output[i]
                    = tprofile.data[i] * byZone * tprofile.ct[r]["plant_id"][i]
====
